---- MODULE Spec2Model ----
(***************************************************************************)
(* Frame Timing Analyzer (subkoma).                                        *)
(*                                                                         *)
(* The classifier pipeline: smoothed MotionIntensity -> hysteresis state   *)
(* machine -> minimum-dwell pass -> frame selection.                       *)
(*                                                                         *)
(* Intensities, thresholds and weights are fixed-point numbers in          *)
(* hundredths (0.60 is 60); min_duration is in hundredths of a second.     *)
(* Frame indices are 0-based as in the documents; position p of a          *)
(* sequence holds frame p - 1.                                             *)
(***************************************************************************)
EXTENDS Integers, Sequences, FiniteSets, TLC

VARIABLES
    cfg,        \* the analysis parameters of the run
    pose,       \* pose pass: validity of every frame's pose, frames seen,
                \* transient failures counted, fatal error
    fps,        \* frame rate of the clip (1 / frame interval)
    raw,        \* raw features <<D, V, A, Theta, P>> of every frame
    norm,       \* the features after per-clip normalization
    mi,         \* MotionIntensity of every frame
    smooth,     \* smoothed intensity of every frame of the clip
    prelim,     \* preliminary state sequence (hysteresis pass), grows by frame
    final,      \* state sequence after the minimum-dwell pass
    preserved,  \* positions the tame/tsume pass annotated as preserved
    plan,       \* OutputPlan: source index of every output frame
    pc,         \* position of the pipeline
    ui,         \* App.svelte: selectedVideoFile, parameters, isAnalyzing,
                \* analysisResult; pending: runAnalysis invocations that
                \* await their response
    callState,  \* the ProcessVideo call: idle, requested, running, returned
    origin,     \* who made the call: the UI (runAnalysis) or another caller
    request,    \* ProcessVideoRequest of the call
    host,       \* what the call finds on the host (stat, getwd, mkdir)
    response,   \* ProcessVideoResponse of the call
    proc,       \* the core subprocess started by the call
    fs,         \* file system: directories, output videos, documents
    fsAtCall,   \* the file system when the call entered ProcessVideo
    env,        \* environment of the application (the PYTHON_DEBUG variables)
    runs        \* number of subprocesses started so far

pipelineVars ==
    <<cfg, pose, fps, raw, norm, mi, smooth, prelim, final, preserved, plan,
      pc>>

appVars == <<ui, callState, origin, request, host, response, proc, fs,
             fsAtCall, runs, env>>

vars == <<pipelineVars, appVars>>

\* ------------------------------------------------------------------ bounds

MaxFrames == 6
MaxFsmFrames == 4
MaxMiFrames == 4
MaxRaw == 1
MaxRuns == 2
MaxTameFrames == 5
MaxHold == 10
MaxBurst == 5
MaxSpikeFrames == 8
MaxPoseFrames == 5

\* ---------------------------------------------------------- configuration

DefaultThresholdHigh == 60
DefaultThresholdLow == 35
DefaultHysteresisMargin == 5
DefaultMinDuration == 8
DefaultSmoothingAlpha == 7
DefaultSmoothingWindow == 3
MinClipFrames == 3
DefaultTameExtension == 3
MaxMinDuration == 20
TsumeWindow == 2
WeightTolerance == 1

\* Weights of displacement, velocity, acceleration, direction change and
\* pose change, in this order.
DefaultMotionWeights == <<20, 25, 20, 15, 20>>

Channels == 1..5
Acceleration == 3

\* The parameters object of the UI; smoothing_alpha is in tenths.
DefaultParameters ==
    [threshold_high |-> DefaultThresholdHigh,
     threshold_low |-> DefaultThresholdLow,
     hysteresis_margin |-> DefaultHysteresisMargin,
     min_duration |-> DefaultMinDuration,
     smoothing_method |-> "ema",
     smoothing_alpha |-> DefaultSmoothingAlpha,
     smoothing_window |-> DefaultSmoothingWindow,
     motion_weights |-> DefaultMotionWeights,
     enable_tame_tsume |-> FALSE,
     tame_extension_frames |-> DefaultTameExtension]

RECURSIVE SumSeq(_)
SumSeq(q) == IF q = <<>> THEN 0 ELSE Head(q) + SumSeq(Tail(q))

TotalWeight(c) == SumSeq(c.motion_weights)

\* The weights must sum to 1.0 within the tolerance.
WeightsValid(c) ==
    /\ TotalWeight(c) - 100 <= WeightTolerance
    /\ 100 - TotalWeight(c) <= WeightTolerance

\* Validation of the configuration at entry: anything else is a ConfigError.
ConfigValid(c) ==
    /\ WeightsValid(c)
    /\ c.smoothing_method \in {"ema", "window"}
    /\ c.threshold_high > c.threshold_low

\* ------------------------------------------- normalization, MI, smoothing

SetMax(S) == CHOOSE x \in S : \A y \in S : y <= x
SetMin(S) == CHOOSE x \in S : \A y \in S : x <= y

\* Per-clip min-max of one channel; a constant channel collapses to 0.
NormalizeChannel(r, c) ==
    LET values == {r[t][c] : t \in 1..Len(r)}
        lo == SetMin(values)
        hi == SetMax(values)
    IN [t \in 1..Len(r) |->
          IF hi = lo THEN 0 ELSE ((r[t][c] - lo) * 100) \div (hi - lo)]

Normalizer(r) ==
    [t \in 1..Len(r) |-> [c \in Channels |-> NormalizeChannel(r, c)[t]]]

\* MI(t): the weighted sum of the normalized features of frame t.
WeightedSum(w, f) ==
    (w[1] * f[1] + w[2] * f[2] + w[3] * f[3] + w[4] * f[4] + w[5] * f[5])
        \div 100

MIAggregator(n, w) == [t \in 1..Len(n) |-> WeightedSum(w, n[t])]

\* ema: alpha * MI(t) + (1 - alpha) * smoothed(t-1), smoothed(0) = MI(0).
RECURSIVE Ema(_, _, _)
Ema(m, alpha, t) ==
    IF t = 1 THEN m[1]
    ELSE (alpha * m[t] + (10 - alpha) * Ema(m, alpha, t - 1)) \div 10

\* window: centered moving average of width w, truncated at the clip ends.
WindowMean(m, w, t) ==
    LET lo == IF t - (w \div 2) < 1 THEN 1 ELSE t - (w \div 2)
        hi == IF t + (w \div 2) > Len(m) THEN Len(m) ELSE t + (w \div 2)
    IN SumSeq(SubSeq(m, lo, hi)) \div (hi - lo + 1)

Smoother(m, c) ==
    [t \in 1..Len(m) |->
        IF c.smoothing_method = "ema"
        THEN Ema(m, c.smoothing_alpha, t)
        ELSE WindowMean(m, c.smoothing_window, t)]

\* ------------------------------------------------------------- classifier

MotionStates == {"HIGH", "MID", "LOW"}

\* Frame 0: absolute thresholds.
InitialState(v, th, tl) ==
    IF v >= th THEN "HIGH"
    ELSE IF v >= tl THEN "MID"
    ELSE "LOW"

\* FromHigh with HIGH left at the upper threshold itself.
FromHigh_NoMargin(v, th, tl, d) ==
    IF v < th
    THEN (IF v < tl - d THEN "LOW" ELSE "MID")
    ELSE "HIGH"

\* FromHigh that keeps HIGH only at or above the threshold plus the margin.
FromHigh_EntryThreshold(v, th, tl, d) ==
    IF v < th + d
    THEN (IF v < tl - d THEN "LOW" ELSE "MID")
    ELSE "HIGH"

\* Exit of HIGH: below the upper threshold less the margin, then below the
\* lower threshold less the margin.
FromHigh(v, th, tl, d) ==
    IF v < th - d
    THEN (IF v < tl - d THEN "LOW" ELSE "MID")
    ELSE "HIGH"

FromMid(v, th, tl, d) ==
    IF v >= th + d THEN "HIGH"
    ELSE IF v < tl - d THEN "LOW"
    ELSE "MID"

\* FromLow with MID entered at the lower threshold itself.
FromLow_NoMargin(v, th, tl, d) ==
    IF v >= tl
    THEN (IF v >= th + d THEN "HIGH" ELSE "MID")
    ELSE "LOW"

FromLow(v, th, tl, d) ==
    IF v >= tl + d
    THEN (IF v >= th + d THEN "HIGH" ELSE "MID")
    ELSE "LOW"

Hysteresis(s, v, th, tl, d) ==
    CASE s = "HIGH" -> FromHigh(v, th, tl, d)
      [] s = "MID" -> FromMid(v, th, tl, d)
      [] s = "LOW" -> FromLow(v, th, tl, d)

\* --------------------------------------------------------- minimum dwell

\* ceil(min_duration / frame interval), min_duration in hundredths of a second.
MinFrames(minDuration, rate) == (minDuration * rate + 99) \div 100

\* Last position of the run of equal states that starts at position i.
RunEnd(s, i) ==
    CHOOSE j \in i..Len(s) :
        /\ \A k \in i..j : s[k] = s[i]
        /\ (j = Len(s) \/ s[j + 1] # s[i])

\* One scan of the runs, left to right: a run shorter than m takes the state
\* of the run before it (as the scan left it); a short run at index 0 takes
\* the state of the next run when there is one.
RECURSIVE DwellScan(_, _, _)
DwellScan(s, i, m) ==
    IF i > Len(s) THEN s
    ELSE LET j == RunEnd(s, i)
             target == IF j - i + 1 >= m THEN s[i]
                       ELSE IF i > 1 THEN s[i - 1]
                       ELSE IF j < Len(s) THEN s[j + 1]
                       ELSE s[i]
             rewritten == [k \in 1..Len(s) |->
                              IF k \in i..j THEN target ELSE s[k]]
         IN DwellScan(rewritten, j + 1, m)

EnforceMinDwell(s, m) == DwellScan(s, 1, m)

\* -------------------------------------------------------------- pose pass

NoPose ==
    [valid |-> <<>>, diag |-> <<>>, scale |-> <<>>, seen |-> 0, failures |-> 0,
     error |-> ""]

\* The bounding-box diagonal below which a pose gives no character scale.
ScaleEpsilon == 1

\* No character scale: the value of S before any frame has given one.
NoScale == 0

\* What one frame gives the pose pass: a valid pose with the diagonal of its
\* bounding box (degenerate or not), or no valid pose and so no box.
FrameObservations ==
    {[valid |-> TRUE, diag |-> 4], [valid |-> TRUE, diag |-> 0],
     [valid |-> FALSE, diag |-> 0]}

\* Character scale of a frame: the diagonal of its bounding box, or the scale
\* of the frame before it when the pose is invalid or the box is degenerate.
ScaleOf(valid, diag, previous) ==
    IF valid /\ diag >= ScaleEpsilon THEN diag ELSE previous

\* The scale of the last frame seen.
LastScale(p) == IF p.scale = <<>> THEN NoScale ELSE p.scale[Len(p.scale)]

\* The pose pass over a clip whose frames give a valid pose or none.
PoseStart(frames) ==
    [NoPose EXCEPT !.valid = [t \in 1..Len(frames) |-> frames[t].valid],
                   !.diag = [t \in 1..Len(frames) |-> frames[t].diag]]

\* One more frame seen; a frame without a valid pose is a transient failure,
\* counted for the summary of the clip.
PoseSeen(p) ==
    [p EXCEPT !.seen = @ + 1,
              !.failures = IF p.valid[p.seen + 1] THEN @ ELSE @ + 1,
              !.scale = Append(@, ScaleOf(p.valid[p.seen + 1],
                                          p.diag[p.seen + 1], LastScale(p)))]

\* No frame of the clip produced a valid pose.
NoSubject(p) == p.failures = Len(p.valid)

\* ------------------------------------------------------------ tame/tsume

\* Tsume onsets: positions where the smoothed intensity has risen from below
\* threshold_high to it or above within a window of k frames.
TsumeOnsets(sm, th, k) ==
    {t \in 2..Len(sm) :
        /\ sm[t] >= th
        /\ \E u \in (t - k + 1)..(t - 1) : u >= 1 /\ sm[u] < th}

\* The positions looked at before the onset at t: up to budget frames.
LookBack(t, budget) == {u \in (t - budget)..(t - 1) : u >= 1}

\* First position of the run of equal states that holds position q.
RunStartOf(s, q) ==
    CHOOSE i \in 1..q :
        /\ \A k \in i..q : s[k] = s[q]
        /\ (i = 1 \/ s[i - 1] # s[q])

\* The positions preserved for the onset at t: when a frame of the look-back
\* is LOW, the whole LOW run that precedes the onset, back to its start.
PreservedFor(s, t, budget) ==
    LET low == {u \in LookBack(t, budget) : s[u] = "LOW"}
    IN IF low = {} THEN {}
       ELSE LET q == SetMax(low) IN RunStartOf(s, q)..q

\* TamePass that marks the look-back frames whatever their state is and
\* extends the hold over them.
TamePass_ExtendHold(s, sm, c) ==
    LET marks == IF c.enable_tame_tsume
                 THEN UNION {LookBack(t, c.tame_extension_frames) :
                                t \in TsumeOnsets(sm, c.threshold_high,
                                                  TsumeWindow)}
                 ELSE {}
    IN [states |-> [p \in 1..Len(s) |-> IF p \in marks THEN "LOW" ELSE s[p]],
        preserved |-> marks]

\* TamePass that marks only the LOW frames inside the look-back.
TamePass_BudgetOnly(s, sm, c) ==
    [states |-> s,
     preserved |->
        IF c.enable_tame_tsume
        THEN UNION {{u \in LookBack(t, c.tame_extension_frames) :
                        s[u] = "LOW"} :
                       t \in TsumeOnsets(sm, c.threshold_high, TsumeWindow)}
        ELSE {}]

\* TamePass that marks the look-back frames whatever their state is.
TamePass_AnyState(s, sm, c) ==
    [states |-> s,
     preserved |->
        IF c.enable_tame_tsume
        THEN UNION {LookBack(t, c.tame_extension_frames) :
                       t \in TsumeOnsets(sm, c.threshold_high, TsumeWindow)}
        ELSE {}]

\* Third pass: the state sequence as it is and the preserved annotations.
TamePass(s, sm, c) ==
    [states |-> s,
     preserved |->
        IF c.enable_tame_tsume
        THEN UNION {PreservedFor(s, t, c.tame_extension_frames) :
                       t \in TsumeOnsets(sm, c.threshold_high, TsumeWindow)}
        ELSE {}]

\* --------------------------------------------------------- frame selection

\* Stride that thins LOW runs like HIGH runs.
Stride_ThinLow(state) ==
    CASE state = "HIGH" -> 2
      [] state = "MID" -> 3
      [] state = "LOW" -> 2

\* Stride with the exposures of HIGH and MID exchanged.
Stride_Exchanged(state) ==
    CASE state = "HIGH" -> 3
      [] state = "MID" -> 2
      [] state = "LOW" -> 1

\* Frames per drawing: HIGH on twos, MID on threes, LOW keeps every frame.
Stride(state) ==
    CASE state = "HIGH" -> 2
      [] state = "MID" -> 3
      [] state = "LOW" -> 1

\* RunEntries sampling on the grid of the clip, not of the run.
RunEntries_ClipGrid(s, i, j) ==
    [o \in 1..(j - i + 1) |->
        Stride(s[i]) * ((i - 1 + o - 1) \div Stride(s[i]))]

\* RunEntries that shows the nearest sampled frame, the coming one included.
RunEntries_Nearest(s, i, j) ==
    [o \in 1..(j - i + 1) |->
        (i - 1) + Stride(s[i]) * ((o - 1 + Stride(s[i]) \div 2)
                                    \div Stride(s[i]))]

\* The entries of the run at positions i..j: the drawing at every stride-th
\* frame of the run, each held for stride frames, the last one to the run end.
RunEntries(s, i, j) ==
    [o \in 1..(j - i + 1) |->
        (i - 1) + Stride(s[i]) * ((o - 1) \div Stride(s[i]))]

\* SelectRuns emitting only the sampled drawings, none of them held.
RECURSIVE SelectRuns_Decimate(_, _, _)
SelectRuns_Decimate(s, i, acc) ==
    IF i > Len(s) THEN acc
    ELSE LET j == RunEnd(s, i)
             n == (j - i + Stride(s[i])) \div Stride(s[i])
         IN SelectRuns_Decimate(s, j + 1,
                acc \o [o \in 1..n |-> (i - 1) + Stride(s[i]) * (o - 1)])

RECURSIVE SelectRuns(_, _, _)
SelectRuns(s, i, acc) ==
    IF i > Len(s) THEN acc
    ELSE LET j == RunEnd(s, i)
         IN SelectRuns(s, j + 1, acc \o RunEntries(s, i, j))

\* FrameSelector that holds the drawing over LOW frames without annotation.
FrameSelector_HoldUnmarked(s, marks) ==
    LET byRuns == SelectRuns(s, 1, <<>>)
    IN [p \in 1..Len(byRuns) |->
            IF p \in marks \/ s[p] # "LOW" THEN byRuns[p]
            ELSE 2 * ((p - 1) \div 2)]

\* The OutputPlan from the final states and the tame annotations: a
\* preserved frame is emitted verbatim, the others by the rule of their run.
FrameSelector(s, marks) ==
    LET byRuns == SelectRuns(s, 1, <<>>)
    IN [p \in 1..Len(byRuns) |-> IF p \in marks THEN p - 1 ELSE byRuns[p]]


\* ------------------------------------------------------- strings and JSON

\* A string is empty, a JSON document (its value), or other text (the error
\* names that occur in it).
EmptyString == [kind |-> "empty"]
Json(v) == [kind |-> "json", value |-> v]
PlainText(names) == [kind |-> "text", names |-> names]

\* json.Unmarshal succeeds on a JSON document only.
Unmarshals(str) == str.kind = "json"

\* contains(s, substr), case-insensitive.
Contains(str, name) == str.kind = "text" /\ name \in str.names

\* ------------------------------------------------------------ file system

ExistingInputs == {"clip.mp4"}
UiFiles == {"clip.mp4", "gone.mp4"}
OutputPaths ==
    {"clip_processed.mp4", "gone_processed.mp4", "out/clip.mp4"}

\* runAnalysis: inputPath.replace(/\.[^/.]+$/, "_processed.mp4"); a name
\* without extension is left as it is.
OutputPathOf(inputPath) ==
    CASE inputPath = "clip.mp4" -> "clip_processed.mp4"
      [] inputPath = "gone.mp4" -> "gone_processed.mp4"
      [] OTHER -> inputPath

\* filepath.Dir.
Dir(path) == IF path = "out/clip.mp4" THEN "out" ELSE "."

DirExists(f, d) == d = "." \/ d \in f.dirs

EmptyFs ==
    [dirs |-> {}, video |-> [o \in OutputPaths |-> 0], tmp |-> {},
     docs |-> {}]

\* ----------------------------------------------------------- ProcessVideo

NoRequest == [input_path |-> "", output_path |-> "", config |-> EmptyString]

NoResponse ==
    [status |-> "", error_type |-> "", message |-> <<>>,
     output_video_path |-> "", database_id |-> 0]

ErrorResponse(errorType, text) ==
    [NoResponse EXCEPT !.status = "error", !.error_type = errorType,
                       !.message = <<text>>]

NoHost == [stat |-> "ok", getwd |-> TRUE, script |-> TRUE, mkdir |-> TRUE]

\* The output directory has to be created before the subprocess starts.
NeedsMkdir(req, f) == ~DirExists(f, Dir(req.output_path))

\* What a call can find: os.Stat of the input, os.Getwd, the script, and,
\* where the output directory is missing, whether os.MkdirAll succeeds.
Hosts(req, f) ==
    [stat : IF req.input_path \in ExistingInputs
            THEN {"ok", "denied"} ELSE {"missing"},
     getwd : BOOLEAN, script : BOOLEAN,
     mkdir : IF NeedsMkdir(req, f) THEN BOOLEAN ELSE {TRUE}]

\* Pre-flight checks that parse the configuration before they look at the
\* input file.
Preflight_ConfigFirst(req, h, f) ==
    IF req.input_path = ""
    THEN ErrorResponse("ValidationError", "Input video path is required")
    ELSE IF req.output_path = ""
    THEN ErrorResponse("ValidationError", "Output path is required")
    ELSE IF req.config.kind = "empty"
    THEN ErrorResponse("ValidationError",
                       "Analysis configuration is required")
    ELSE IF ~Unmarshals(req.config)
    THEN ErrorResponse("ConfigurationError", "Invalid configuration format")
    ELSE IF h.stat = "missing"
    THEN ErrorResponse("FileNotFoundError", "Input video file not found")
    ELSE IF h.stat # "ok"
    THEN ErrorResponse("FileAccessError", "Cannot access input video file")
    ELSE IF ~h.getwd
    THEN ErrorResponse("SystemError", "Failed to get working directory")
    ELSE IF ~h.script
    THEN ErrorResponse("InstallationError",
                       "Backend processing script not found")
    ELSE IF NeedsMkdir(req, f) /\ ~h.mkdir
    THEN ErrorResponse("FileSystemError", "Cannot create output directory")
    ELSE NoResponse

\* The pre-flight checks in their order; "" when all of them pass.
Preflight(req, h, f) ==
    IF req.input_path = ""
    THEN ErrorResponse("ValidationError", "Input video path is required")
    ELSE IF req.output_path = ""
    THEN ErrorResponse("ValidationError", "Output path is required")
    ELSE IF req.config.kind = "empty"
    THEN ErrorResponse("ValidationError",
                       "Analysis configuration is required")
    ELSE IF h.stat = "missing"
    THEN ErrorResponse("FileNotFoundError", "Input video file not found")
    ELSE IF h.stat # "ok"
    THEN ErrorResponse("FileAccessError", "Cannot access input video file")
    ELSE IF ~Unmarshals(req.config)
    THEN ErrorResponse("ConfigurationError", "Invalid configuration format")
    ELSE IF ~h.getwd
    THEN ErrorResponse("SystemError", "Failed to get working directory")
    ELSE IF ~h.script
    THEN ErrorResponse("InstallationError",
                       "Backend processing script not found")
    ELSE IF NeedsMkdir(req, f) /\ ~h.mkdir
    THEN ErrorResponse("FileSystemError", "Cannot create output directory")
    ELSE NoResponse

\* PrepareOutput that also creates the output file, to see it is writable.
PrepareOutput_CreatesFile(req, f) ==
    [f EXCEPT !.dirs = (@ \cup {Dir(req.output_path)}) \ {"."},
              !.video[req.output_path] = runs + 1]

\* The file system after the output-directory step: os.MkdirAll when the
\* directory of the output path does not exist.
PrepareOutput(req, f) ==
    IF NeedsMkdir(req, f)
    THEN [f EXCEPT !.dirs = @ \cup {Dir(req.output_path)}]
    ELSE f

\* The response to a non-zero exit whose stderr is not a JSON document.
PatternResponse(stderr) ==
    IF Contains(stderr, "FileNotFoundError") \/ Contains(stderr, "No such file")
    THEN ErrorResponse("FileNotFoundError", "File not found during processing")
    ELSE IF Contains(stderr, "PermissionError")
            \/ Contains(stderr, "Permission denied")
    THEN ErrorResponse("PermissionError", "Permission denied")
    ELSE IF Contains(stderr, "ModuleNotFoundError")
            \/ Contains(stderr, "ImportError")
    THEN ErrorResponse("DependencyError",
                       "Missing required Python dependencies")
    ELSE IF Contains(stderr, "OutOfMemoryError")
            \/ Contains(stderr, "MemoryError")
    THEN ErrorResponse("MemoryError", "Insufficient memory")
    ELSE IF Contains(stderr, "cv2.error") \/ Contains(stderr, "OpenCV")
    THEN ErrorResponse("VideoProcessingError", "Video processing error")
    ELSE ErrorResponse("PythonExecutionError", "Processing failed with error")

\* FailureResponse that never reads the stderr as a JSON document.
FailureResponse_NoJson(stderr) ==
    IF stderr.kind # "empty"
    THEN PatternResponse([kind |-> "text", names |-> {}])
    ELSE ErrorResponse("ExecutionError", "Python script execution failed")

\* FailureResponse that reports every failed command under one error type.
FailureResponse_OneType(stderr) ==
    IF stderr.kind # "empty" /\ Unmarshals(stderr)
    THEN [stderr.value EXCEPT
            !.error_type = "PythonExecutionError",
            !.message = <<"Processing failed: ">> \o stderr.value.message]
    ELSE IF stderr.kind # "empty"
    THEN PatternResponse(stderr)
    ELSE ErrorResponse("ExecutionError", "Python script execution failed")

\* The response to a failed command (cmdErr != nil): the stderr document as
\* it is, its message prefixed; else by the text of stderr; else generic.
FailureResponse(stderr) ==
    IF stderr.kind # "empty" /\ Unmarshals(stderr)
    THEN [stderr.value EXCEPT
            !.message = IF stderr.value.message # <<>>
                        THEN <<"Processing failed: ">> \o stderr.value.message
                        ELSE <<>>]
    ELSE IF stderr.kind # "empty"
    THEN PatternResponse(stderr)
    ELSE ErrorResponse("ExecutionError", "Python script execution failed")

\* The response to a command that exited with code 0.
SuccessResponse(stdout) ==
    IF stdout.kind = "empty"
    THEN ErrorResponse("OutputError", "No output received")
    ELSE IF ~Unmarshals(stdout)
    THEN ErrorResponse("ParseError", "Failed to parse processing results")
    ELSE IF stdout.value.status = ""
    THEN ErrorResponse("ResponseError", "Invalid response format")
    ELSE IF stdout.value.status = "success" /\ stdout.value.message = <<>>
    THEN [stdout.value EXCEPT
            !.message = <<"Video processing completed successfully.">>]
    ELSE stdout.value

\* ResponseOf that reads stdout whatever the command's error was.
ResponseOf_IgnoreExit(exit, stdout, stderr) ==
    IF stdout.kind = "empty"
    THEN FailureResponse(stderr)
    ELSE SuccessResponse(stdout)

\* ProcessVideo after cmd.Output(): by cmdErr, then by stderr or stdout.
ResponseOf(exit, stdout, stderr) ==
    IF exit # 0 THEN FailureResponse(stderr) ELSE SuccessResponse(stdout)

\* ------------------------------------------------------- core subprocess

\* The analysis passes of the core, in their order.
PassNames ==
    <<"pose", "features", "normalize", "aggregate", "smooth", "classify",
      "dwell", "tame", "select">>

NoProc ==
    [pc |-> "none", run |-> 0, args |-> <<>>, input |-> "", output |-> "",
     config |-> EmptyString, started |-> FALSE, opened |-> FALSE,
     pass |-> 0, error |-> "", exit |-> 0, stdout |-> EmptyString,
     stderr |-> EmptyString, aborted |-> FALSE]

\* One argument of a command line: a plain string. The configuration string
\* is an argument as it is.
Arg(text) == [kind |-> "arg", text |-> text]

\* filepath.Join(workingDir, "backend", "process_video.py").
ScriptPath == "backend/process_video.py"

\* The environment of the application: the variables ProcessVideo reads.
NoEnvironment ==
    [PYTHON_DEBUG |-> "", PYTHON_DEBUG_WAIT |-> "", PYTHON_DEBUG_PORT |-> ""]

Environments ==
    [PYTHON_DEBUG : {"", "true", "1"}, PYTHON_DEBUG_WAIT : {"", "true"},
     PYTHON_DEBUG_PORT : {"", "5679"}]

\* Debug flags that follow PYTHON_DEBUG_WAIT alone.
DebugArgs_WaitAlone(e) ==
    (IF e.PYTHON_DEBUG = "true" THEN <<Arg("--debug")>> ELSE <<>>)
    \o (IF e.PYTHON_DEBUG_WAIT = "true" THEN <<Arg("--debug-wait")>> ELSE <<>>)
    \o (IF e.PYTHON_DEBUG = "true" /\ e.PYTHON_DEBUG_PORT # ""
        THEN <<Arg("--debug-port"), Arg(e.PYTHON_DEBUG_PORT)>> ELSE <<>>)

\* The debug flags: none unless PYTHON_DEBUG is "true".
DebugArgs(e) ==
    IF e.PYTHON_DEBUG = "true"
    THEN <<Arg("--debug")>>
         \o (IF e.PYTHON_DEBUG_WAIT = "true"
             THEN <<Arg("--debug-wait")>> ELSE <<>>)
         \o (IF e.PYTHON_DEBUG_PORT # ""
             THEN <<Arg("--debug-port"), Arg(e.PYTHON_DEBUG_PORT)>>
             ELSE <<>>)
    ELSE <<>>

\* The arguments of the command: uv run python script --input ... --output
\* ... --config ... and the debug flags.
CommandArgs(req, e) ==
    <<Arg("run"), Arg("python"), Arg(ScriptPath),
      Arg("--input"), Arg(req.input_path),
      Arg("--output"), Arg(req.output_path),
      Arg("--config"), req.config>> \o DebugArgs(e)

\* The value the core's argument parser gives an option: the argument after
\* the first occurrence of the flag.
ArgAfter(args, flag) ==
    args[SetMin({k \in 1..Len(args) : args[k] = Arg(flag)}) + 1]

\* exec.Command("uv", "run", "python", script, "--input", ..., "--output",
\* ..., "--config", ...): the process reads its input, output and
\* configuration from its arguments.
NewProc(run, args) ==
    [NoProc EXCEPT !.pc = "spawned", !.run = run, !.args = args,
                   !.input = ArgAfter(args, "--input").text,
                   !.output = ArgAfter(args, "--output").text,
                   !.config = ArgAfter(args, "--config")]

Running(p) == p.pc \notin {"none", "exited"}

PassesPending(p) == Running(p) /\ p.pass < Len(PassNames)

\* The error document of the core on stderr.
ErrorJson(errorType) ==
    Json([NoResponse EXCEPT !.status = "error", !.error_type = errorType,
                            !.message = <<"fatal: ", errorType>>])

\* The success document of the core on stdout.
SuccessJson(p) ==
    Json([NoResponse EXCEPT !.status = "success",
                            !.output_video_path = p.output,
                            !.database_id = p.run,
                            !.message = <<"Video processed successfully.">>])

\* A JSON document without the status field.
StatusLessJson == Json([NoResponse EXCEPT !.message = <<"no status">>])

\* What cmd.Output() can hand to ProcessVideo: the exit code of the command,
\* and on each stream nothing, text that is not JSON (with one of the names
\* ProcessVideo looks for, or none), a document of the contract, or a JSON
\* document without status.
ExitCodes == {0, 1, 2, 137}

StderrNames ==
    {"FileNotFoundError", "Permission denied", "ImportError", "MemoryError",
     "OpenCV"}

StreamContents ==
    {EmptyString, PlainText({}), StatusLessJson, ErrorJson("ConfigError"),
     Json([NoResponse EXCEPT !.status = "success",
                             !.output_video_path = "out/clip.mp4",
                             !.database_id = 1])}
    \cup {PlainText({n}) : n \in StderrNames}

\* A fatal error: error document on stderr, non-zero exit code.
Fatal(p, errorType) ==
    [p EXCEPT !.pc = "exited", !.error = errorType, !.exit = 1,
              !.stderr = ErrorJson(errorType)]

\* ---------------------------------------------------------------------- UI

NoResult == [status |-> "", errorType |-> ""]

\* Parameter sets the sliders can produce: the defaults, thresholds in the
\* wrong order, equal thresholds, weights that sum to 1.5.
UiParameters ==
    {DefaultParameters,
     [DefaultParameters EXCEPT !.threshold_high = 40, !.threshold_low = 60],
     [DefaultParameters EXCEPT !.threshold_low = 60],
     [DefaultParameters EXCEPT !.motion_weights = <<30, 30, 30, 30, 30>>]}

\* Requests of callers other than runAnalysis.
OtherRequests ==
    {[input_path |-> i, output_path |-> o, config |-> c] :
        i \in {"", "clip.mp4"}, o \in {"", "out/clip.mp4"},
        c \in {EmptyString, PlainText({}), Json(DefaultParameters),
               Json([DefaultParameters EXCEPT
                        !.motion_weights = <<30, 30, 30, 30, 30>>])}}

\* The application after startup in the environment e, before any call.
AppIdleIn(e) ==
    /\ env = e
    /\ ui = [selectedVideoFile |-> "", parameters |-> DefaultParameters,
             isAnalyzing |-> FALSE, analysisResult |-> NoResult,
             pending |-> 0]
    /\ callState = "idle"
    /\ origin = "ui"
    /\ request = NoRequest
    /\ host = NoHost
    /\ response = NoResponse
    /\ proc = NoProc
    /\ fs = EmptyFs
    /\ fsAtCall = EmptyFs
    /\ runs = 0

\* The application started without the debug variables.
AppIdle == AppIdleIn(NoEnvironment)

PipelineIdle ==
    /\ cfg = DefaultParameters
    /\ pose = NoPose
    /\ fps = 30
    /\ raw = <<>>
    /\ norm = <<>>
    /\ mi = <<>>
    /\ smooth = <<>>
    /\ prelim = <<>>
    /\ final = <<>>
    /\ preserved = {}
    /\ plan = <<>>
    /\ pc = "idle"

\* ------------------------------------------------------------------ inputs

SeqsOfLen(S, n) == [1..n -> S]

Clips(S, maxLen) == UNION {SeqsOfLen(S, n) : n \in MinClipFrames..maxLen}

\* Intensity levels of the clips of the whole pipeline: one in each band of
\* the default thresholds that decides differently by the previous state.
CoarseLevels == {10, 37, 57, 80}

\* Intensity levels of the classifier runs: one in every interval between
\* the thresholds and their margins, and on the thresholds of FsmConfigs.
FineLevels == {10, 32, 37, 50, 57, 62, 80}

ThresholdConfigs ==
    {[DefaultParameters EXCEPT !.threshold_high = c[1],
                               !.threshold_low = c[2],
                               !.hysteresis_margin = c[3]] :
        c \in {<<DefaultThresholdHigh, DefaultThresholdLow,
                 DefaultHysteresisMargin>>,
               <<57, 37, 5>>, <<60, 35, 0>>, <<50, 37, 13>>}}

DurationConfigs ==
    {[DefaultParameters EXCEPT !.min_duration = d] :
        d \in {2, DefaultMinDuration, 10, MaxMinDuration}}

FrameRates == {24, 30}

\* The tame/tsume option off (the default of the UI) and on, with extension
\* budgets from none to the default.
TameConfigs ==
    {DefaultParameters} \cup
    {[DefaultParameters EXCEPT !.enable_tame_tsume = TRUE,
                               !.tame_extension_frames = b] :
        b \in {0, 1, DefaultTameExtension}}

\* A LOW sea with a single frame at 0.80, not at index 0.
SpikeClips ==
    {[p \in 1..n |-> IF p = t THEN 80 ELSE 10] :
        n \in (MaxSpikeFrames - 1)..MaxSpikeFrames, t \in 2..MaxSpikeFrames}

\* A hold followed by a burst: a frames at 0.10, then b frames at 0.80.
StepClips ==
    {[p \in 1..(a + b) |-> IF p <= a THEN 10 ELSE 80] :
        a \in 1..MaxHold, b \in 1..MaxBurst}

\* ----------------------------------------------------------------- actions

\* Weights that pass validation: the UI defaults, the documented defaults,
\* and sums at both ends of the tolerance.
WeightConfigs ==
    {[DefaultParameters EXCEPT !.motion_weights = w] :
        w \in {DefaultMotionWeights, <<30, 25, 20, 15, 10>>,
               <<31, 25, 20, 15, 10>>, <<30, 25, 20, 15, 9>>}}

SmoothingConfigs ==
    {[c EXCEPT !.smoothing_method = m[1], !.smoothing_alpha = m[2]] :
        c \in WeightConfigs,
        m \in {<<"ema", DefaultSmoothingAlpha>>, <<"ema", 10>>,
               <<"window", DefaultSmoothingAlpha>>}}

\* Raw feature streams of a clip whose poses are all valid: every feature is
\* 0 at frame 0 and the acceleration is 0 at frame 1.
FeatureClips ==
    UNION {{r \in SeqsOfLen([Channels -> 0..MaxRaw], n) :
                /\ \A c \in Channels : r[1][c] = 0
                /\ r[2][Acceleration] = 0} :
           n \in MinClipFrames..MaxMiFrames}

\* The pipeline at the classifier, the smoothed intensities computed.
PipelineStart(c, r, clip) ==
    /\ cfg = c
    /\ pose = NoPose
    /\ fps = r
    /\ raw = <<>>
    /\ norm = <<>>
    /\ mi = <<>>
    /\ smooth = clip
    /\ prelim = <<>>
    /\ final = <<>>
    /\ preserved = {}
    /\ plan = <<>>
    /\ pc = "classify"
    /\ AppIdle

Init ==
    \E c \in DurationConfigs, r \in FrameRates,
       clip \in Clips(CoarseLevels, MaxFrames) \cup SpikeClips :
        PipelineStart(c, r, clip)

InitTame ==
    \E c \in TameConfigs, r \in FrameRates,
       clip \in Clips(CoarseLevels, MaxTameFrames) \cup
                {q \in StepClips : Len(q) >= MinClipFrames} :
        PipelineStart(c, r, clip)

\* The pipeline at the pose pass of an opened clip.
InitPose ==
    \E frames \in Clips(FrameObservations, MaxPoseFrames) :
        /\ cfg = DefaultParameters
        /\ pose = PoseStart(frames)
        /\ fps = 30
        /\ raw = <<>>
        /\ norm = <<>>
        /\ mi = <<>>
        /\ smooth = <<>>
        /\ prelim = <<>>
        /\ final = <<>>
        /\ preserved = {}
        /\ plan = <<>>
        /\ pc = "pose"
        /\ AppIdle

InitFsm ==
    \E c \in ThresholdConfigs, clip \in Clips(FineLevels, MaxFsmFrames) :
        PipelineStart(c, 30, clip)

\* The pipeline after the feature pass of a clip with a valid configuration.
InitMi ==
    \E c \in SmoothingConfigs, r \in FeatureClips :
        /\ ConfigValid(c)
        /\ cfg = c
        /\ pose = NoPose
        /\ fps = 30
        /\ raw = r
        /\ norm = <<>>
        /\ mi = <<>>
        /\ smooth = <<>>
        /\ prelim = <<>>
        /\ final = <<>>
        /\ preserved = {}
        /\ plan = <<>>
        /\ pc = "normalize"
        /\ AppIdle

\* DetectPose that raises on a frame without a valid pose.
DetectPose_Raises ==
    /\ pc = "pose"
    /\ pose.seen < Len(pose.valid)
    /\ pose' = IF pose.valid[pose.seen + 1]
               THEN PoseSeen(pose)
               ELSE [PoseSeen(pose) EXCEPT !.error = "NoSubjectDetected"]
    /\ pc' = IF pose.valid[pose.seen + 1] THEN "pose" ELSE "failed"
    /\ UNCHANGED <<appVars, cfg, fps, raw, norm, mi, smooth, prelim, final,
                   preserved, plan>>

\* PoseEstimator on the next frame: it never raises for a single frame.
DetectPose ==
    /\ pc = "pose"
    /\ pose.seen < Len(pose.valid)
    /\ pose' = PoseSeen(pose)
    /\ UNCHANGED <<appVars, cfg, fps, raw, norm, mi, smooth, prelim, final,
                   preserved, plan, pc>>

\* The end of the pose pass: the clip is rejected with NoSubjectDetected when
\* no frame gave a valid pose, else the pipeline goes on to the features.
PoseCheck ==
    /\ pc = "pose"
    /\ pose.seen = Len(pose.valid)
    /\ pose' = IF NoSubject(pose)
               THEN [pose EXCEPT !.error = "NoSubjectDetected"]
               ELSE pose
    /\ pc' = IF NoSubject(pose) THEN "failed" ELSE "features"
    /\ UNCHANGED <<appVars, cfg, fps, raw, norm, mi, smooth, prelim, final,
                   preserved, plan>>

NormalizePass ==
    /\ pc = "normalize"
    /\ norm' = Normalizer(raw)
    /\ pc' = "aggregate"
    /\ UNCHANGED <<appVars, pose, preserved, cfg, fps,
                   raw, mi, smooth, prelim, final, plan>>

AggregatePass ==
    /\ pc = "aggregate"
    /\ mi' = MIAggregator(norm, cfg.motion_weights)
    /\ pc' = "smooth"
    /\ UNCHANGED <<appVars, pose, preserved, cfg, fps,
                   raw, norm, smooth, prelim, final, plan>>

SmoothPass ==
    /\ pc = "smooth"
    /\ smooth' = Smoother(mi, cfg)
    /\ pc' = "classify"
    /\ UNCHANGED <<appVars, pose, preserved, cfg, fps,
                   raw, norm, mi, prelim, final, plan>>

\* The classifier reads the next frame and records its state.
ClassifyFrame ==
    /\ pc = "classify"
    /\ Len(prelim) < Len(smooth)
    /\ LET t == Len(prelim) + 1
           v == smooth[t]
           s == IF t = 1
                THEN InitialState(v, cfg.threshold_high, cfg.threshold_low)
                ELSE Hysteresis(prelim[t - 1], v, cfg.threshold_high,
                                cfg.threshold_low, cfg.hysteresis_margin)
       IN /\ prelim' = Append(prelim, s)
          /\ pc' = IF t = Len(smooth) THEN "dwell" ELSE "classify"
    /\ UNCHANGED <<appVars, pose, preserved, cfg, fps,
                   raw, norm, mi, smooth, final, plan>>

\* MinDwell that confirms the preliminary states as they are.
MinDwell_ConfirmAll ==
    /\ pc = "dwell"
    /\ final' = prelim
    /\ pc' = "tame"
    /\ UNCHANGED <<appVars, pose, preserved, cfg, fps,
                   raw, norm, mi, smooth, prelim, plan>>

\* MinDwell that keeps the first run as it is.
MinDwell_KeepFirst ==
    /\ pc = "dwell"
    /\ final' = LET d == EnforceMinDwell(prelim,
                                         MinFrames(cfg.min_duration, fps))
                IN [k \in 1..Len(prelim) |->
                        IF k <= RunEnd(prelim, 1) THEN prelim[k] ELSE d[k]]
    /\ pc' = "tame"
    /\ UNCHANGED <<appVars, pose, preserved, cfg, fps,
                   raw, norm, mi, smooth, prelim, plan>>

\* Second pass: minimum dwell over the whole preliminary sequence.
MinDwell ==
    /\ pc = "dwell"
    /\ final' = EnforceMinDwell(prelim, MinFrames(cfg.min_duration, fps))
    /\ pc' = "tame"
    /\ UNCHANGED <<appVars, pose, preserved, cfg, fps,
                   raw, norm, mi, smooth, prelim, plan>>

\* Third pass: tame/tsume annotation over the final state sequence.
TameTsume ==
    /\ pc = "tame"
    /\ final' = TamePass(final, smooth, cfg).states
    /\ preserved' = TamePass(final, smooth, cfg).preserved
    /\ pc' = "select"
    /\ UNCHANGED <<appVars, pose, cfg, fps, raw, norm, mi, smooth, prelim, plan>>

\* FrameSelector builds the OutputPlan from the final state sequence.
SelectFrames ==
    /\ pc = "select"
    /\ plan' = FrameSelector(final, preserved)
    /\ pc' = "done"
    /\ UNCHANGED <<appVars, pose, preserved, cfg, fps,
                   raw, norm, mi, smooth, prelim, final>>

Next ==
    \/ ClassifyFrame
    \/ MinDwell
    \/ TameTsume
    \/ SelectFrames

Spec == Init /\ [][Next]_vars

SpecFsm == InitFsm /\ [][Next]_vars

SpecTame == InitTame /\ [][Next]_vars

NextPose ==
    \/ DetectPose
    \/ PoseCheck

SpecPose == InitPose /\ [][NextPose]_vars

NextMi ==
    \/ NormalizePass
    \/ AggregatePass
    \/ SmoothPass

SpecMi == InitMi /\ [][NextMi]_vars


\* ------------------------------------------------------------ app actions

InitApp == PipelineIdle /\ AppIdle

\* handleFileSelect: the user chooses a file.
HandleFileSelect ==
    /\ ~ui.isAnalyzing
    /\ \E f \in UiFiles : ui' = [ui EXCEPT !.selectedVideoFile = f]
    /\ UNCHANGED <<pipelineVars, env, callState, origin, request, host, response,
                   proc, fs, fsAtCall, runs>>

\* The user moves sliders.
SetParameters ==
    /\ ~ui.isAnalyzing
    /\ \E p \in UiParameters : ui' = [ui EXCEPT !.parameters = p]
    /\ UNCHANGED <<pipelineVars, env, callState, origin, request, host, response,
                   proc, fs, fsAtCall, runs>>

\* Another caller of the bound method has a call under way.
OtherCallUnderWay == origin = "other" /\ callState # "idle"

\* A Run button that stays enabled while isAnalyzing.
RunAnalysis_ButtonEnabled ==
    /\ ui.selectedVideoFile # ""
    /\ ~OtherCallUnderWay
    /\ runs < MaxRuns
    /\ ui' = [ui EXCEPT !.isAnalyzing = TRUE, !.analysisResult = NoResult,
                        !.pending = @ + 1]
    /\ request' = [input_path |-> ui.selectedVideoFile,
                   output_path |-> OutputPathOf(ui.selectedVideoFile),
                   config |-> Json(ui.parameters)]
    /\ origin' = "ui"
    /\ callState' = "requested"
    /\ UNCHANGED <<pipelineVars, env, host, response, proc, fs, fsAtCall, runs>>

\* runAnalysis up to the call of ProcessVideo; the Run button is disabled
\* while isAnalyzing, and nothing else keeps runAnalysis from running again.
RunAnalysis ==
    /\ ~ui.isAnalyzing
    /\ ui.selectedVideoFile # ""
    /\ ~OtherCallUnderWay
    /\ runs < MaxRuns
    /\ ui' = [ui EXCEPT !.isAnalyzing = TRUE, !.analysisResult = NoResult,
                        !.pending = @ + 1]
    /\ request' = [input_path |-> ui.selectedVideoFile,
                   output_path |-> OutputPathOf(ui.selectedVideoFile),
                   config |-> Json(ui.parameters)]
    /\ origin' = "ui"
    /\ callState' = "requested"
    /\ UNCHANGED <<pipelineVars, env, host, response, proc, fs, fsAtCall, runs>>

\* Another caller of the bound method.
OtherCall ==
    /\ ~ui.isAnalyzing
    /\ callState = "idle"
    /\ runs < MaxRuns
    /\ \E r \in OtherRequests : request' = r
    /\ origin' = "other"
    /\ callState' = "requested"
    /\ UNCHANGED <<pipelineVars, env, ui, host, response, proc, fs, fsAtCall,
                   runs>>

\* A ProcessVideo that creates the output directory on entry, before its
\* checks.
ProcessVideoCall_MkdirOnEntry ==
    /\ callState = "requested"
    /\ \E h \in Hosts(request, fs) :
        /\ host' = h
        /\ fsAtCall' = fs
        /\ fs' = IF request.output_path # "" /\ h.mkdir
                 THEN PrepareOutput(request, fs) ELSE fs
        /\ IF Preflight(request, h, fs) # NoResponse
           THEN /\ response' = Preflight(request, h, fs)
                /\ callState' = "returned"
                /\ UNCHANGED <<proc, runs>>
           ELSE /\ proc' = NewProc(runs + 1, CommandArgs(request, env))
                /\ runs' = runs + 1
                /\ callState' = "running"
                /\ UNCHANGED response
    /\ UNCHANGED <<pipelineVars, env, ui, origin, request>>

\* ProcessVideo from its entry to cmd.Output(): the pre-flight checks, the
\* output directory, the start of the subprocess.
ProcessVideoCall ==
    /\ callState = "requested"
    /\ \E h \in Hosts(request, fs) :
        /\ host' = h
        /\ fsAtCall' = fs
        /\ IF Preflight(request, h, fs) # NoResponse
           THEN /\ response' = Preflight(request, h, fs)
                /\ callState' = "returned"
                /\ UNCHANGED <<proc, fs, runs>>
           ELSE /\ fs' = PrepareOutput(request, fs)
                /\ proc' = NewProc(runs + 1, CommandArgs(request, env))
                /\ runs' = runs + 1
                /\ callState' = "running"
                /\ UNCHANGED response
    /\ UNCHANGED <<pipelineVars, env, ui, origin, request>>

\* ProcessVideo after cmd.Output() returned.
ProcessVideoReturn ==
    /\ callState = "running"
    /\ proc.pc = "exited"
    /\ response' = ResponseOf(proc.exit, proc.stdout, proc.stderr)
    /\ callState' = "returned"
    /\ UNCHANGED <<pipelineVars, env, ui, origin, request, host, proc, fs,
                   fsAtCall, runs>>

\* The call is over: its request, response and subprocess are gone.
CallOver ==
    /\ callState' = "idle"
    /\ request' = NoRequest
    /\ host' = NoHost
    /\ response' = NoResponse
    /\ proc' = NoProc
    /\ fsAtCall' = fs

\* A runAnalysis whose finally block leaves isAnalyzing as it is.
ReceiveResponse_KeepsOverlay ==
    /\ callState = "returned"
    /\ origin = "ui"
    /\ ui' = [ui EXCEPT
                !.analysisResult =
                    IF response.status = "success"
                    THEN [status |-> "success", errorType |-> ""]
                    ELSE [status |-> "error",
                          errorType |-> response.error_type],
                !.pending = @ - 1]
    /\ CallOver
    /\ UNCHANGED <<pipelineVars, env, origin, fs, runs>>

\* runAnalysis after the await: the result is shown, the overlay closed.
ReceiveResponse ==
    /\ callState = "returned"
    /\ origin = "ui"
    /\ ui' = [ui EXCEPT
                !.analysisResult =
                    IF response.status = "success"
                    THEN [status |-> "success", errorType |-> ""]
                    ELSE [status |-> "error",
                          errorType |-> response.error_type],
                !.isAnalyzing = FALSE,
                !.pending = @ - 1]
    /\ CallOver
    /\ UNCHANGED <<pipelineVars, env, origin, fs, runs>>

\* runAnalysis's catch and finally: the call of the bound method throws
\* instead of giving a response; the error is shown, the overlay closed.
RunAnalysisCatch ==
    /\ callState = "requested"
    /\ origin = "ui"
    /\ ui' = [ui EXCEPT
                !.analysisResult =
                    [status |-> "error", errorType |-> "UnexpectedError"],
                !.isAnalyzing = FALSE,
                !.pending = @ - 1]
    /\ CallOver
    /\ UNCHANGED <<pipelineVars, env, origin, fs, runs>>

OtherReturn ==
    /\ callState = "returned"
    /\ origin = "other"
    /\ CallOver
    /\ UNCHANGED <<pipelineVars, env, ui, origin, fs, runs>>

\* The command cannot run the script: uv is missing (no exit status, no
\* stderr) or the interpreter fails on its imports.
LaunchFails ==
    /\ proc.pc = "spawned"
    /\ \E err \in {EmptyString, PlainText({"ModuleNotFoundError"})} :
        proc' = [proc EXCEPT !.pc = "exited", !.exit = 2, !.stderr = err]
    /\ UNCHANGED <<pipelineVars, env, ui, callState, origin, request, host,
                   response, fs, fsAtCall, runs>>

\* The core parses its arguments and validates the configuration once, at
\* entry.
CoreValidate ==
    /\ proc.pc = "spawned"
    /\ proc' = IF ConfigValid(proc.config.value)
               THEN [proc EXCEPT !.started = TRUE, !.pc = "open"]
               ELSE Fatal([proc EXCEPT !.started = TRUE], "ConfigError")
    /\ UNCHANGED <<pipelineVars, env, ui, callState, origin, request, host,
                   response, fs, fsAtCall, runs>>

\* FrameSource opens the input.
CoreOpen ==
    /\ proc.pc = "open"
    /\ \/ proc' = [proc EXCEPT !.opened = TRUE, !.pc = "passes"]
       \/ \E e \in {"InputUnreadable", "VariableFrameRate", "ShortClip"} :
            proc' = Fatal(proc, e)
    /\ UNCHANGED <<pipelineVars, env, ui, callState, origin, request, host,
                   response, fs, fsAtCall, runs>>

\* One analysis pass; the pose pass fails when no frame has a valid pose.
CorePass ==
    /\ proc.pc = "passes"
    /\ \/ proc' = [proc EXCEPT
                      !.pass = @ + 1,
                      !.pc = IF proc.pass + 1 = Len(PassNames)
                             THEN "persist" ELSE "passes"]
       \/ /\ PassNames[proc.pass + 1] = "pose"
          /\ proc' = Fatal(proc, "NoSubjectDetected")
    /\ UNCHANGED <<pipelineVars, env, ui, callState, origin, request, host,
                   response, fs, fsAtCall, runs>>

\* Reporter: the document is handed to the persistence store.
CorePersist ==
    /\ proc.pc = "persist"
    /\ \/ /\ fs' = [fs EXCEPT !.docs = @ \cup {proc.run}]
          /\ proc' = [proc EXCEPT !.pc = "write"]
       \/ /\ proc' = Fatal(proc, "OutputWriteError")
          /\ UNCHANGED fs
    /\ UNCHANGED <<pipelineVars, env, ui, callState, origin, request, host,
                   response, fsAtCall, runs>>

\* Reporter: the video is written to a temporary path.
CoreWriteTemp ==
    /\ proc.pc = "write"
    /\ \/ /\ fs' = [fs EXCEPT !.tmp = @ \cup {proc.output}]
          /\ proc' = [proc EXCEPT !.pc = "rename"]
       \/ /\ proc' = Fatal(proc, "OutputWriteError")
          /\ UNCHANGED fs
    /\ UNCHANGED <<pipelineVars, env, ui, callState, origin, request, host,
                   response, fsAtCall, runs>>

\* Reporter: the temporary file is renamed to the output path.
CoreRename ==
    /\ proc.pc = "rename"
    /\ fs' = [fs EXCEPT !.tmp = @ \ {proc.output},
                        !.video[proc.output] = proc.run]
    /\ proc' = [proc EXCEPT !.pc = "report"]
    /\ UNCHANGED <<pipelineVars, env, ui, callState, origin, request, host,
                   response, fsAtCall, runs>>

\* The success document is printed on stdout.
CoreReport ==
    /\ proc.pc = "report"
    /\ proc' = [proc EXCEPT !.pc = "exit", !.stdout = SuccessJson(proc)]
    /\ UNCHANGED <<pipelineVars, env, ui, callState, origin, request, host,
                   response, fs, fsAtCall, runs>>

\* Exit code 0.
CoreExit ==
    /\ proc.pc = "exit"
    /\ proc' = [proc EXCEPT !.pc = "exited", !.exit = 0]
    /\ UNCHANGED <<pipelineVars, env, ui, callState, origin, request, host,
                   response, fs, fsAtCall, runs>>

\* The process is killed from outside; there is no cancellation in the core.
CoreAbort ==
    /\ Running(proc)
    /\ proc' = [proc EXCEPT !.pc = "exited", !.exit = 137, !.aborted = TRUE]
    /\ UNCHANGED <<pipelineVars, env, ui, callState, origin, request, host,
                   response, fs, fsAtCall, runs>>

NextApp ==
    \/ HandleFileSelect
    \/ SetParameters
    \/ RunAnalysis
    \/ OtherCall
    \/ ProcessVideoCall
    \/ ProcessVideoReturn
    \/ ReceiveResponse
    \/ RunAnalysisCatch
    \/ OtherReturn
    \/ LaunchFails
    \/ CoreValidate
    \/ CoreOpen
    \/ CorePass
    \/ CorePersist
    \/ CoreWriteTemp
    \/ CoreRename
    \/ CoreReport
    \/ CoreExit
    \/ CoreAbort

SpecApp == InitApp /\ [][NextApp]_vars

\* A call of ProcessVideo whose subprocess has ended, with every exit code
\* and every content of its two streams.
InitResponse ==
    /\ PipelineIdle
    /\ env = NoEnvironment
    /\ ui = [selectedVideoFile |-> "", parameters |-> DefaultParameters,
             isAnalyzing |-> FALSE, analysisResult |-> NoResult,
             pending |-> 0]
    /\ callState = "running"
    /\ origin = "other"
    /\ request = [input_path |-> "clip.mp4", output_path |-> "out/clip.mp4",
                  config |-> Json(DefaultParameters)]
    /\ host = NoHost
    /\ response = NoResponse
    /\ fs = PrepareOutput(request, EmptyFs)
    /\ fsAtCall = EmptyFs
    /\ runs = 1
    /\ \E exit \in ExitCodes, out \in StreamContents, err \in StreamContents :
        proc = [NewProc(1, CommandArgs(request, env)) EXCEPT
                    !.pc = "exited", !.exit = exit, !.stdout = out,
                    !.stderr = err]

NextResponse ==
    \/ ProcessVideoReturn
    \/ OtherReturn

SpecResponse == InitResponse /\ [][NextResponse]_vars

\* The page alone: runAnalysis is the only caller of the bound method.
NextUi ==
    \/ HandleFileSelect
    \/ SetParameters
    \/ RunAnalysis
    \/ ProcessVideoCall
    \/ ProcessVideoReturn
    \/ ReceiveResponse
    \/ RunAnalysisCatch
    \/ LaunchFails
    \/ CoreValidate
    \/ CoreOpen
    \/ CorePass
    \/ CorePersist
    \/ CoreWriteTemp
    \/ CoreRename
    \/ CoreReport
    \/ CoreExit
    \/ CoreAbort

\* The steps of a call that is under way: ProcessVideo runs to its return,
\* the subprocess it waits for runs to its exit (or is killed), and the
\* continuation of runAnalysis runs when the call has settled.
CallSteps ==
    \/ ProcessVideoCall
    \/ ProcessVideoReturn
    \/ ReceiveResponse
    \/ RunAnalysisCatch
    \/ LaunchFails
    \/ CoreValidate
    \/ CoreOpen
    \/ CorePass
    \/ CorePersist
    \/ CoreWriteTemp
    \/ CoreRename
    \/ CoreReport
    \/ CoreExit
    \/ CoreAbort

\* The page started in any environment.
InitArgs == PipelineIdle /\ \E e \in Environments : AppIdleIn(e)

SpecArgs == InitArgs /\ [][NextUi]_vars

\* The page with a call that never stops for ever halfway.
SpecUi == InitApp /\ [][NextUi]_vars /\ WF_vars(CallSteps)

\* ------------------------------------------------- classifier properties

\* The band of intensities in which a state is retained.
RetentionBand(state, v, th, tl, d) ==
    CASE state = "HIGH" -> v >= th - d
      [] state = "MID" -> tl - d <= v /\ v < th + d
      [] state = "LOW" -> v < tl + d

\* Frames t+1..u hold one constant intensity inside the band of the state
\* of frame t.
HeldInBand(t, u) ==
    /\ t < u
    /\ \A k \in (t + 1)..u : smooth[k] = smooth[u]
    /\ RetentionBand(prelim[t], smooth[u], cfg.threshold_high,
                     cfg.threshold_low, cfg.hysteresis_margin)

\* C1: hysteresis retention. If the classifier is in state X at a frame and
\* the smoothed intensity is then held at one constant value inside X's
\* retention band, the state is X at every one of the following frames.
C1_HysteresisRetention ==
    \A t \in 1..Len(prelim), u \in 1..Len(prelim) :
        HeldInBand(t, u) => \A k \in (t + 1)..u : prelim[k] = prelim[t]

\* C1 witness: a state held for two frames at a value between its exit and
\* its entry threshold, where the margin alone keeps it.
C1_Witness ==
    \E t \in 1..Len(prelim) :
        /\ t + 2 <= Len(prelim)
        /\ HeldInBand(t, t + 2)
        /\ prelim[t] = "HIGH"
        /\ smooth[t + 2] < cfg.threshold_high
        /\ prelim[t + 2] = "HIGH"

\* The reference transition function, as the design states it.
ReferenceInitial(v, th, tl) ==
    IF v >= th THEN "HIGH" ELSE IF v >= tl THEN "MID" ELSE "LOW"

ReferenceNext(s, v, th, tl, d) ==
    CASE s = "HIGH" -> (IF v < tl - d THEN "LOW"
                        ELSE IF v < th - d THEN "MID" ELSE "HIGH")
      [] s = "MID" -> (IF v >= th + d THEN "HIGH"
                       ELSE IF v < tl - d THEN "LOW" ELSE "MID")
      [] s = "LOW" -> (IF v >= th + d THEN "HIGH"
                       ELSE IF v >= tl + d THEN "MID" ELSE "LOW")

\* C10: the preliminary state sequence equals the reference function: the
\* state of frame 0 by the absolute thresholds, the state of every later
\* frame by the previous state and the frame's value alone.
C10_PrelimIsReference ==
    \A t \in 1..Len(prelim) :
        prelim[t] = IF t = 1
                    THEN ReferenceInitial(smooth[1], cfg.threshold_high,
                                          cfg.threshold_low)
                    ELSE ReferenceNext(prelim[t - 1], smooth[t],
                                       cfg.threshold_high, cfg.threshold_low,
                                       cfg.hysteresis_margin)

\* C10 witness: a classified clip that visits all three states.
C10_Witness ==
    /\ pc = "dwell"
    /\ {prelim[t] : t \in 1..Len(prelim)} = MotionStates

\* ---------------------------------------------------- timing properties

RunStarts(s) == {i \in 1..Len(s) : i = 1 \/ s[i - 1] # s[i]}

RunLength(s, i) == RunEnd(s, i) - i + 1

DwellDone == pc \in {"tame", "select", "done"}

\* C2: after the minimum-dwell pass every maximal run of equal states,
\* except possibly the last one, has at least ceil(min_duration / frame
\* interval) frames.
C2_NoShortRun ==
    DwellDone =>
        \A i \in RunStarts(final) :
            RunEnd(final, i) < Len(final) =>
                RunLength(final, i) >= MinFrames(cfg.min_duration, fps)

\* C3: the OutputPlan has exactly as many entries as the clip has frames.
C3_PlanLength ==
    pc = "done" => Len(plan) = Len(final) /\ Len(plan) = Len(smooth)

\* C3 witness: a plan built over a HIGH run and a MID run whose lengths are
\* not multiples of their strides.
C3_Witness ==
    /\ pc = "done"
    /\ \E i \in RunStarts(final), j \in RunStarts(final) :
        /\ final[i] = "HIGH" /\ RunLength(final, i) % 2 = 1
        /\ final[j] = "MID" /\ RunLength(final, j) % 3 # 0

\* C4: the source indices of the OutputPlan never decrease, also from the
\* last entry of a run to the first entry of the next run.
C4_PlanMonotone ==
    pc = "done" => \A p \in 1..(Len(plan) - 1) : plan[p] <= plan[p + 1]

\* C4 witness: a plan over a HIGH run of odd length followed by a MID run.
C4_Witness ==
    /\ pc = "done"
    /\ \E i \in RunStarts(final) :
        /\ final[i] = "HIGH"
        /\ RunLength(final, i) % 2 = 1
        /\ RunEnd(final, i) < Len(final)
        /\ final[RunEnd(final, i) + 1] = "MID"

\* ------------------------------------------------- intensity properties

\* C5: for a clip of at least 3 valid-pose frames and a configuration that
\* passes validation, the smoothed intensity of every frame lies in [0, 1].
C5_SmoothedInUnitRange ==
    \A t \in 1..Len(smooth) : 0 <= smooth[t] /\ smooth[t] <= 100

\* ------------------------------------------------------- call properties

ThresholdsOutOfOrder(c) == c.threshold_high <= c.threshold_low

CallHasProcess == callState \in {"running", "returned"} /\ proc.pc # "none"

OutputVideoOf(p) == fs.video[p.output] = p.run

DocumentOf(p) == p.run \in fs.docs

\* C6: every run of the core whose configuration has threshold_high <=
\* threshold_low ends in ConfigError with a non-zero exit code before the
\* input is opened and before any pass has run, on the first run and on
\* every later one, and ProcessVideo reports it as error ConfigError, also
\* when the request was built by runAnalysis from the sliders.
C6_ThresholdOrderRejected ==
    (CallHasProcess /\ proc.started
        /\ ThresholdsOutOfOrder(proc.config.value))
    => /\ proc.pc = "exited"
       /\ proc.error = "ConfigError"
       /\ proc.exit # 0
       /\ ~proc.opened
       /\ proc.pass = 0
       /\ callState = "returned"
            => /\ response.status = "error"
               /\ response.error_type = "ConfigError"

\* A second run, requested from the UI with equal thresholds, has returned
\* ConfigError.
C6_Witness ==
    /\ callState = "returned"
    /\ origin = "ui"
    /\ runs > 1
    /\ proc.started
    /\ request.config.value.threshold_high
         = request.config.value.threshold_low
    /\ response.error_type = "ConfigError"

\* C7: a run whose motion weights do not sum to 1.0 +/- 0.01 ends in
\* ConfigError with a non-zero exit code and an error document on stderr,
\* and nothing is written: no output video, no persisted document and no
\* other change of the file system since the call entered ProcessVideo.
C7_BadWeightsNothingWritten ==
    (CallHasProcess /\ proc.started /\ ~WeightsValid(proc.config.value))
    => /\ proc.pc = "exited"
       /\ proc.error = "ConfigError"
       /\ proc.exit # 0
       /\ proc.stderr.kind = "json"
       /\ proc.stderr.value.status = "error"
       /\ ~OutputVideoOf(proc)
       /\ ~DocumentOf(proc)
       /\ fs = fsAtCall

C9_OutputsOnlyAfterPasses ==
    proc.pc # "none"
    => /\ PassesPending(proc) => ~OutputVideoOf(proc) /\ ~DocumentOf(proc)
       /\ proc.aborted => ~OutputVideoOf(proc) /\ ~DocumentOf(proc)

\* C9, amended: the output video and the persisted document of a run do
\* not exist while one of its passes is pending; a run aborted before its
\* passes completed leaves neither behind; the output video never exists
\* without the persisted document (a run aborted during the write-out can
\* leave the document, with or without the video).
C9_OutputsOnlyAfterPassesAmended ==
    proc.pc # "none"
    => /\ PassesPending(proc) => ~OutputVideoOf(proc) /\ ~DocumentOf(proc)
       /\ (proc.aborted /\ proc.pass < Len(PassNames))
            => ~OutputVideoOf(proc) /\ ~DocumentOf(proc)
       /\ OutputVideoOf(proc) => DocumentOf(proc)

\* A run was aborted after its document was persisted and before its video
\* was renamed to the output path.
C9_Witness ==
    /\ proc.aborted
    /\ proc.pass = Len(PassNames)
    /\ DocumentOf(proc)
    /\ ~OutputVideoOf(proc)

\* ------------------------------------------------------- plan by state

SelectDone == pc = "done"

\* Output positions that hold source index x.
PositionsOf(x) == {q \in 1..Len(plan) : plan[q] = x}

\* C11: every frame whose final state is LOW is emitted exactly once in the
\* OutputPlan, and at its own position (output position i holds source
\* index i).
C11_LowEmittedOnce ==
    SelectDone =>
        \A p \in 1..Len(final) :
            final[p] = "LOW" => PositionsOf(p - 1) = {p}

\* A plan is built for a clip with a LOW run between two other runs.
C11_Witness ==
    /\ SelectDone
    /\ \E p \in 2..(Len(final) - 2) :
        /\ final[p - 1] # "LOW"
        /\ final[p] = "LOW"
        /\ final[p + 1] = "LOW"
        /\ final[p + 2] # "LOW"

\* C12: in a HIGH run (stride 2) or a MID run (stride 3) that starts at
\* source index i0 and has length L, the output entry at offset j of the
\* run is i0 + stride * floor(j / stride) for every 0 <= j < L, also when L
\* is not a multiple of the stride.
C12_StrideFormula ==
    SelectDone =>
        \A i \in RunStarts(final) :
            final[i] # "LOW" =>
                LET stride == IF final[i] = "HIGH" THEN 2 ELSE 3
                    i0 == i - 1
                IN \A j \in 0..(RunLength(final, i) - 1) :
                        plan[i + j] = i0 + stride * (j \div stride)

\* A plan is built for a clip with a HIGH run of 3 frames and one with a MID
\* run of 4 or 5 frames, neither at the start of the clip.
C12_Witness ==
    /\ SelectDone
    /\ \E i \in RunStarts(final) :
        /\ i > 1
        /\ \/ final[i] = "HIGH" /\ RunLength(final, i) = 3
           \/ final[i] = "MID" /\ RunLength(final, i) \in {4, 5}

\* -------------------------------------------------- tame/tsume properties

TameDone == pc \in {"select", "done"}

\* The onsets the pass detects in the clip of the state.
DetectedOnsets ==
    IF cfg.enable_tame_tsume
    THEN TsumeOnsets(smooth, cfg.threshold_high, TsumeWindow)
    ELSE {}

\* C13: every frame annotated as preserved has final state LOW and is
\* emitted verbatim, at its own position of the OutputPlan, for every clip
\* and every extension budget.
C13_PreservedVerbatim ==
    /\ TameDone => \A p \in preserved : p \in 1..Len(final) /\ final[p] = "LOW"
    /\ SelectDone => \A p \in preserved : plan[p] = p - 1

\* A plan is built for a clip in which frames are preserved before an onset
\* that follows a MID frame.
C13_Witness ==
    /\ SelectDone
    /\ preserved # {}
    /\ \E t \in DetectedOnsets : final[t - 1] = "MID"

\* C14: the state label of every frame after the third pass equals its label
\* after the minimum-dwell pass.
C14_TameKeepsStates ==
    TameDone =>
        final = EnforceMinDwell(prelim, MinFrames(cfg.min_duration, fps))

\* The third pass has annotated frames of a clip that has non-LOW frames in
\* the look-back of an onset.
C14_Witness ==
    /\ pc = "select"
    /\ preserved # {}
    /\ \E t \in DetectedOnsets :
        \E u \in LookBack(t, cfg.tame_extension_frames) : final[u] # "LOW"

\* The plan of the pipeline for the preliminary states of the clip under
\* configuration c.
PlanWith(c) ==
    LET dwelled == EnforceMinDwell(prelim, MinFrames(c.min_duration, fps))
        third == TamePass(dwelled, smooth, c)
    IN FrameSelector(third.states, third.preserved)

C16_WholeLowRunPreserved ==
    TameDone =>
        \A t \in DetectedOnsets :
            LET low == {u \in LookBack(t, cfg.tame_extension_frames) :
                            final[u] = "LOW"}
            IN low # {} =>
                \A v \in 1..SetMax(low) :
                    (\A k \in v..SetMax(low) : final[k] = "LOW")
                        => v \in preserved

\* The LOW run before a detected onset is longer than the extension budget
\* and reaches back beyond the look-back.
C16_Witness ==
    /\ TameDone
    /\ \E t \in DetectedOnsets :
        /\ cfg.tame_extension_frames >= 1
        /\ t - cfg.tame_extension_frames > 1
        /\ \A u \in 1..(t - 1) : final[u] = "LOW"

\* LOW on frames 0..9 and HIGH on frames 10..14.
HoldThenBurst ==
    /\ Len(final) = 15
    /\ \A p \in 1..15 : final[p] = IF p <= 10 THEN "LOW" ELSE "HIGH"

\* C17: with LOW on frames 0..9, HIGH on frames 10..14, the option on and
\* tame_extension_frames = 3, the onset is detected at frame 10 and the
\* preserved frames are the indices 7, 8 and 9; in general the preserved
\* frames are the LOW frames within tame_extension_frames before an onset.
C17_PreservedWithinBudget ==
    TameDone =>
        /\ (HoldThenBurst /\ cfg.enable_tame_tsume
                /\ cfg.tame_extension_frames = 3)
            => /\ 11 \in DetectedOnsets
               /\ preserved = {8, 9, 10}
        /\ preserved =
              {u \in 1..Len(final) :
                  /\ final[u] = "LOW"
                  /\ \E t \in DetectedOnsets :
                        u \in LookBack(t, cfg.tame_extension_frames)}

\* ------------------------------------------------ minimum-dwell properties

\* The minimum dwell of the run, in frames.
Dwell == MinFrames(cfg.min_duration, fps)

\* The preliminary sequence is LOW except for one HIGH frame at position t.
SpikeAt(t) ==
    \A p \in 1..Len(prelim) : prelim[p] = IF p = t THEN "HIGH" ELSE "LOW"

\* Positions of a single HIGH frame that has LOW frames on both sides.
SpikesInside == {t \in 2..(Len(prelim) - 1) : SpikeAt(t)}

\* A run of the preliminary sequence that is not at index 0 and is shorter
\* than the minimum dwell takes the state of the run before it, as the pass
\* left that run.
ShortRunHoldsPrevious ==
    DwellDone =>
        \A i \in RunStarts(prelim) :
            (i > 1 /\ RunLength(prelim, i) < Dwell) =>
                \A k \in i..RunEnd(prelim, i) : final[k] = final[i - 1]

C19_FirstRunTakesNext ==
    DwellDone =>
        LET j == RunEnd(prelim, 1)
        IN j < Dwell =>
            IF j < Len(prelim)
            THEN \A k \in 1..j : final[k] = prelim[j + 1]
            ELSE final = prelim

\* The pass has run over a clip whose first run was short and followed by
\* another run, with the run after that long enough.
C19_Witness ==
    /\ DwellDone
    /\ RunEnd(prelim, 1) < Dwell
    /\ RunEnd(prelim, 1) < Len(prelim)
    /\ final[1] # prelim[1]

\* The pass has run over a clip that is one run shorter than the minimum.
C19_WitnessOnlyRun ==
    /\ DwellDone
    /\ RunEnd(prelim, 1) = Len(prelim)
    /\ Len(prelim) < Dwell

\* ------------------------------------------------------- pose properties

ValidFrames == {t \in 1..Len(pose.valid) : pose.valid[t]}

\* C20: the pipeline aborts with NoSubjectDetected if and only if no frame of
\* the clip yields a valid pose; with at least one valid frame, any number of
\* frames without a valid pose is counted and the pipeline goes on, and no
\* frame aborts it while the pass is running.
C20_NoSubjectIffNoValidPose ==
    /\ pc = "pose" => pose.error = ""
    /\ pc = "failed" =>
        /\ pose.error = "NoSubjectDetected"
        /\ ValidFrames = {}
    /\ pc = "features" =>
        /\ pose.error = ""
        /\ ValidFrames # {}
        /\ pose.failures = Len(pose.valid) - Cardinality(ValidFrames)
    /\ (pose.valid # <<>> /\ pose.seen = Len(pose.valid) /\ pc # "pose") =>
        (pc = "failed" <=> ValidFrames = {})

\* The pass went on to the features although every frame but the last had no
\* valid pose.
C20_Witness ==
    /\ pc = "features"
    /\ Len(pose.valid) > 3
    /\ ValidFrames = {Len(pose.valid)}

\* C21: when at least one frame of the clip has a valid pose, every frame has
\* a defined character scale S(t) > 0 after the pose pass, the frames with an
\* invalid pose or a degenerate bounding box before the first valid frame
\* (frame 0 included) too.
C21_ScaleDefinedOnEveryFrame ==
    (pc = "features" /\ ValidFrames # {}) =>
        /\ Len(pose.scale) = Len(pose.valid)
        /\ \A t \in 1..Len(pose.scale) : pose.scale[t] > NoScale

\* ------------------------------------------------------ overlay properties

\* The loading overlay of the page is rendered.
OverlayVisible == ui.isAnalyzing

\* The Run button is disabled.
RunButtonDisabled == ui.isAnalyzing

\* A request of Run Analysis has started and its result has not been
\* received.
UiCallInFlight == origin = "ui" /\ callState # "idle"

\* C22: the loading overlay is shown from the moment Run Analysis starts a
\* request until its result is received; on every path of runAnalysis
\* (success response, error response, thrown exception) isAnalyzing returns
\* to false, and while it is true the overlay is visible and the Run button
\* is disabled.
C22_OverlayFollowsRequest ==
    /\ [](UiCallInFlight <=> ui.isAnalyzing)
    /\ [](ui.isAnalyzing => (OverlayVisible /\ RunButtonDisabled))
    /\ (ui.isAnalyzing ~> ~ui.isAnalyzing)

\* The overlay has been closed after a thrown exception, in a request that
\* followed one whose subprocess ran.
C22_Witness ==
    /\ ~ui.isAnalyzing
    /\ ui.analysisResult = [status |-> "error", errorType |-> "UnexpectedError"]
    /\ runs > 0

\* -------------------------------------------------- error-path properties

\* The sequence tail ends the sequence whole.
EndsWith(whole, tail) ==
    /\ Len(tail) <= Len(whole)
    /\ SubSeq(whole, Len(whole) - Len(tail) + 1, Len(whole)) = tail

\* The subprocess of the call has exited with a non-zero code and an error
\* document on stderr.
ExitedWithErrorJson ==
    /\ CallHasProcess
    /\ proc.pc = "exited"
    /\ proc.exit # 0
    /\ proc.stderr.kind = "json"
    /\ proc.stderr.value.status = "error"

CheckFailed(k) ==
    CASE k = 1 -> request.input_path = ""
      [] k = 2 -> request.output_path = ""
      [] k = 3 -> request.config = EmptyString
      [] k = 4 -> host.stat = "missing"
      [] k = 5 -> host.stat = "denied"
      [] k = 6 -> request.config.kind # "json"
      [] k = 7 -> ~host.getwd
      [] k = 8 -> ~host.script
      [] k = 9 -> /\ ~DirExists(fsAtCall, Dir(request.output_path))
                  /\ ~host.mkdir

\* The error check k answers with.
CheckResponse(k) ==
    CASE k = 1 -> ErrorResponse("ValidationError",
                                "Input video path is required")
      [] k = 2 -> ErrorResponse("ValidationError", "Output path is required")
      [] k = 3 -> ErrorResponse("ValidationError",
                                "Analysis configuration is required")
      [] k = 4 -> ErrorResponse("FileNotFoundError",
                                "Input video file not found")
      [] k = 5 -> ErrorResponse("FileAccessError",
                                "Cannot access input video file")
      [] k = 6 -> ErrorResponse("ConfigurationError",
                                "Invalid configuration format")
      [] k = 7 -> ErrorResponse("SystemError",
                                "Failed to get working directory")
      [] k = 8 -> ErrorResponse("InstallationError",
                                "Backend processing script not found")
      [] k = 9 -> ErrorResponse("FileSystemError",
                                "Cannot create output directory")

\* The output-directory step, the last of the checks.
OutputDirectoryCheck == 9

FailedChecks == {k \in 1..OutputDirectoryCheck : CheckFailed(k)}

\* ProcessVideo has run its pre-flight checks and the call is not over.
PreflightDone == callState \in {"running", "returned"}

\* C24: ProcessVideo starts the core subprocess only after every pre-flight
\* check has passed, and the checks run in a fixed order (empty input path,
\* empty output path, empty config, input missing, input inaccessible, config
\* not JSON, working directory, script missing, output directory not
\* creatable): the first failing one decides the response.
C24_FirstFailingCheckDecides ==
    PreflightDone =>
        LET failed == FailedChecks
        IN  /\ (proc.pc # "none") <=> (failed = {})
            /\ failed # {} =>
                /\ callState = "returned"
                /\ response = CheckResponse(SetMin(failed))

\* A call in which the input is inaccessible, the configuration is not JSON,
\* and the script is missing: the first of the three decided.
C24_Witness ==
    /\ callState = "returned"
    /\ {5, 6, 8} \subseteq FailedChecks
    /\ response.error_type = "FileAccessError"

\* ---------------------------------------------------- command properties

\* The arguments of the subprocess after the script path.
ScriptArgs == SubSeq(proc.args, 4, Len(proc.args))

\* The flag is among the arguments that follow the three required ones.
FlagPassed(flag) ==
    \E k \in 7..Len(ScriptArgs) : ScriptArgs[k] = Arg(flag)

\* C25: every subprocess invocation made by ProcessVideo carries --input,
\* --output and --config, in that order, each followed by the value of the
\* request unchanged; --debug is added only when PYTHON_DEBUG is "true", and
\* --debug-wait and --debug-port are never passed without --debug.
C25_RequiredArgumentsInOrder ==
    proc.pc # "none" =>
        /\ Len(ScriptArgs) >= 6
        /\ SubSeq(ScriptArgs, 1, 6)
             = <<Arg("--input"), Arg(request.input_path),
                 Arg("--output"), Arg(request.output_path),
                 Arg("--config"), request.config>>
        /\ FlagPassed("--debug") => env.PYTHON_DEBUG = "true"
        /\ (FlagPassed("--debug-wait") \/ FlagPassed("--debug-port")) =>
                FlagPassed("--debug")

\* A subprocess started with PYTHON_DEBUG_WAIT and PYTHON_DEBUG_PORT set but
\* PYTHON_DEBUG other than "true": it got the required arguments only.
C25_Witness ==
    /\ proc.pc # "none"
    /\ env.PYTHON_DEBUG = "1"
    /\ env.PYTHON_DEBUG_WAIT = "true"
    /\ env.PYTHON_DEBUG_PORT # ""
    /\ Len(ScriptArgs) = 6

\* A subprocess started with all three debug variables set.
C25_WitnessDebug ==
    /\ proc.pc # "none"
    /\ FlagPassed("--debug")
    /\ FlagPassed("--debug-wait")
    /\ FlagPassed("--debug-port")

\* --------------------------------------------------- response properties

\* C26: every response returned by ProcessVideo, on every path (validation
\* failure, non-zero exit with JSON, plain or empty stderr, exit 0 with empty,
\* unparsable or parsable stdout), has a status that is exactly "success" or
\* "error".
C26_StatusSuccessOrError ==
    callState = "returned" => response.status \in {"success", "error"}

\* ------------------------------------------------- concurrency properties

\* C27: at most one analysis is in flight at any time: from the start of a
\* ProcessVideo call made by the page until its response arrives no second
\* call, and so no second subprocess, is started, under any interleaving of
\* button clicks and responses.
C27_OneAnalysisInFlight ==
    /\ [](ui.pending <= 1)
    /\ []((callState # "idle" \/ proc.pc # "none") => ui.pending = 1)
    /\ [][ui'.pending > ui.pending =>
            (ui.pending = 0 /\ callState = "idle" /\ proc.pc = "none")]_vars

\* The subprocess of a second analysis is running, started after the
\* response of the first had arrived.
C27_Witness ==
    /\ ui.pending = 1
    /\ callState = "running"
    /\ Running(proc)
    /\ proc.run = 2

\* A check before the output-directory step has failed in the call under way.
EarlyCheckFailed ==
    /\ PreflightDone
    /\ \E k \in 1..(OutputDirectoryCheck - 1) : CheckFailed(k)

\* C28: a ProcessVideo call that fails a pre-flight check before the
\* output-directory step (ValidationError, FileNotFoundError,
\* FileAccessError, ConfigurationError, SystemError, InstallationError) leaves
\* the file system unchanged: the output directory is not created and no
\* subprocess has run.
C28_EarlyFailureLeavesFileSystem ==
    EarlyCheckFailed =>
        /\ response.error_type \in
                {"ValidationError", "FileNotFoundError", "FileAccessError",
                 "ConfigurationError", "SystemError", "InstallationError"}
        /\ fs = fsAtCall
        /\ (/\ request.output_path # ""
            /\ ~DirExists(fsAtCall, Dir(request.output_path)))
                => ~DirExists(fs, Dir(request.output_path))
        /\ proc = NoProc

\* A call for an output directory that does not exist and could be created
\* has returned InstallationError.
C28_Witness ==
    /\ callState = "returned"
    /\ response.error_type = "InstallationError"
    /\ request.output_path = "out/clip.mp4"
    /\ ~DirExists(fsAtCall, Dir(request.output_path))
    /\ host.mkdir

\* ------------------------------------------------ constant-clip properties

\* The smoothed intensity has the same value on every frame.
ConstantIntensity == \A t \in 1..Len(smooth) : smooth[t] = smooth[1]

\* C29: for a smoothed intensity with the same value on every frame, whatever
\* the value (also one between an entry threshold and its exit threshold) and
\* for every margin >= 0 with threshold_high > threshold_low, the state of
\* every frame equals the initial state of frame 0: the clip is a single run.
C29_ConstantClipSingleRun ==
    (ConstantIntensity /\ prelim # <<>>) =>
        /\ prelim[1] = InitialState(smooth[1], cfg.threshold_high,
                                    cfg.threshold_low)
        /\ \A t \in 1..Len(prelim) : prelim[t] = prelim[1]
        /\ RunStarts(prelim) = {1}

\* A clip classified HIGH throughout at a value that is above the threshold
\* and below the threshold plus the margin, where MID would not be left.
C29_Witness ==
    /\ pc = "dwell"
    /\ ConstantIntensity
    /\ Len(prelim) = MaxFsmFrames
    /\ cfg.hysteresis_margin > 0
    /\ smooth[1] >= cfg.threshold_high
    /\ smooth[1] < cfg.threshold_high + cfg.hysteresis_margin
    /\ \A t \in 1..Len(prelim) : prelim[t] = "HIGH"

\* ---------------------------------------------------- plan-lag properties

\* The source index emitted at output position j and j itself lie in one
\* run of the final state sequence.
SameRun(source, j) ==
    /\ source + 1 \in 1..Len(final)
    /\ RunStartOf(final, source + 1) = RunStartOf(final, j + 1)

\* C30: the OutputPlan never shows a frame ahead of time or from another
\* run: for every output position j the emitted source index s satisfies
\* s <= j and j - s <= 2, and s lies in the same run of the final state
\* sequence as j.
C30_PlanLagsWithinRun ==
    SelectDone =>
        \A p \in 1..Len(plan) :
            /\ plan[p] <= p - 1
            /\ (p - 1) - plan[p] <= 2
            /\ SameRun(plan[p], p - 1)

\* A plan with a frame shown two positions after its own, in a run that does
\* not start the clip.
C30_Witness ==
    /\ SelectDone
    /\ \E p \in 1..Len(plan) :
        /\ (p - 1) - plan[p] = 2
        /\ RunStartOf(final, p) > 1

====
